---- MODULE Spec2Model ----
(***************************************************************************)
(* A model of node-mcf (class Mc, revision 1.2.0): the supervisor of a     *)
(* Minecraft/Forge server process, its console parser and its event bus.   *)
(*                                                                         *)
(* Strings that the code inspects character by character (the console      *)
(* chunks) are sequences of one-character strings; offsets into them are   *)
(* 0-based as in JavaScript, so the character at offset i of s is s[i+1].  *)
(***************************************************************************)
EXTENDS Integers, Sequences, FiniteSets, TLC

(***************************************************************************)
(* Bounds of the model.                                                    *)
(***************************************************************************)
\* calls of startServer in one behaviour
MaxStarts == 2
\* console chunks delivered in one behaviour
MaxChunks == 2
\* commands written to the terminals in one behaviour
MaxWrites == 1
\* listeners registered on the bus from outside the class
MaxExt == 1

(***************************************************************************)
(* Character classes of the regex table.                                   *)
(***************************************************************************)
Digits == {"0","1","2","3","4","5","6","7","8","9"}

UpperCase == {"A","B","C","D","E","F","G","H","I","J","K","L","M",
              "N","O","P","Q","R","S","T","U","V","W","X","Y","Z"}

LowerCase == {"a","b","c","d","e","f","g","h","i","j","k","l","m",
              "n","o","p","q","r","s","t","u","v","w","x","y","z"}

WhiteSpace == {" ", "\t", "\r", "\n"}

\* [\w\d\s\\/.:] of regex.ctags
CtagsClass == UpperCase \cup LowerCase \cup Digits \cup {"_"} \cup WhiteSpace
              \cup {"\\", "/", ".", ":"}

\* [0-9:] of regex.cinfo
CinfoTimeClass == Digits \cup {":"}

\* [\[A-Z\s\\/.\]] of regex.cinfo, under the i flag
CinfoLevelClass == UpperCase \cup LowerCase \cup WhiteSpace
                   \cup {"[", "]", "\\", "/", "."}

\* [0-9\.] of regex.cdone
CdoneClass == Digits \cup {"."}

\* "Done \(" and "s\)\!" of regex.cdone, under the i flag
CdoneHead == << {"D","d"}, {"O","o"}, {"N","n"}, {"E","e"}, {" "}, {"("} >>

CdoneTail == << {"S","s"}, {")"}, {"!"} >>

(***************************************************************************)
(* Matching helpers.  All offsets are 0-based.                             *)
(***************************************************************************)
\* the literal (a sequence of character sets) occurs in s at offset i
LitAt(s, i, lit) ==
  /\ i + Len(lit) <= Len(s)
  /\ \A k \in 1..Len(lit) : s[i + k] \in lit[k]

\* the offset after the longest run of characters of cls that starts at i
RECURSIVE RunEnd(_, _, _)
RunEnd(s, i, cls) ==
  IF i < Len(s) /\ s[i + 1] \in cls THEN RunEnd(s, i + 1, cls) ELSE i

\* s without the characters of cls
RECURSIVE RemoveChars(_, _)
RemoveChars(s, cls) ==
  IF s = << >> THEN << >>
  ELSE IF Head(s) \in cls THEN RemoveChars(Tail(s), cls)
       ELSE << Head(s) >> \o RemoveChars(Tail(s), cls)

\* the smallest offset >= i at which lit occurs in s, or -1
RECURSIVE IndexOf(_, _, _)
IndexOf(s, lit, i) ==
  IF i + Len(lit) > Len(s) THEN -1
  ELSE IF LitAt(s, i, lit) THEN i
       ELSE IndexOf(s, lit, i + 1)

\* String.prototype.replace(string, ''): the first occurrence only
RemoveFirst(s, lit) ==
  LET i == IndexOf(s, lit, 0)
  IN IF i < 0 THEN s
     ELSE SubSeq(s, 1, i) \o SubSeq(s, i + Len(lit) + 1, Len(s))

(***************************************************************************)
(* regex.ctags = /\[([\w\d\s\\/.:]+)\]/gi                                  *)
(***************************************************************************)
\* the offset after a match of ctags that starts at i, or -1
CtagsEndAt(s, i) ==
  IF ~LitAt(s, i, << {"["} >>) THEN -1
  ELSE LET e == RunEnd(s, i + 1, CtagsClass)
       IN IF e > i + 1 /\ LitAt(s, e, << {"]"} >>) THEN e + 1 ELSE -1

\* getRegexMatches(regex.ctags, s): capture group 1 of every match, in order
RECURSIVE CtagsFrom(_, _)
CtagsFrom(s, i) ==
  IF i >= Len(s) THEN << >>
  ELSE LET e == CtagsEndAt(s, i)
       IN IF e < 0 THEN CtagsFrom(s, i + 1)
          ELSE << SubSeq(s, i + 2, e - 1) >> \o CtagsFrom(s, e)

getRegexMatches(s) == CtagsFrom(s, 0)

(***************************************************************************)
(* regex.cinfo = /(\[[0-9:]+\]) (\[[\[A-Z\s\\/.\]]+: )/gi                  *)
(***************************************************************************)
\* the offset after a match of cinfo that starts at i, or -1.  Neither class
\* holds the character that must follow its run, so the longest run is the
\* only candidate.
CinfoEndAt(s, i) ==
  IF ~LitAt(s, i, << {"["} >>) THEN -1
  ELSE LET e1 == RunEnd(s, i + 1, CinfoTimeClass)
       IN IF ~(e1 > i + 1 /\ LitAt(s, e1, << {"]"}, {" "}, {"["} >>)) THEN -1
          ELSE LET e2 == RunEnd(s, e1 + 3, CinfoLevelClass)
               IN IF e2 > e1 + 3 /\ LitAt(s, e2, << {":"}, {" "} >>)
                  THEN e2 + 2 ELSE -1

\* s.replace(regex.cinfo, ''): every match removed
RECURSIVE StripCinfo(_, _)
StripCinfo(s, i) ==
  IF i >= Len(s) THEN << >>
  ELSE LET e == CinfoEndAt(s, i)
       IN IF e < 0 THEN << s[i + 1] >> \o StripCinfo(s, i + 1)
          ELSE StripCinfo(s, e)

\* the escape sequence '\u001b[m>' (the first character stands for U+001B)
PromptEscape == << {"ESC"}, {"["}, {"m"}, {">"} >>

\* the message of a chunk
Cinfo(data) ==
  RemoveFirst(RemoveChars(RemoveChars(StripCinfo(data, 0), {"\r"}), {"\n"}),
              PromptEscape)

(***************************************************************************)
(* regex.cdone = /Done \(([0-9\.]+)s\)\!/gi                                *)
(***************************************************************************)
\* the offset after a match of cdone that starts at i, or -1
CdoneEndAt(s, i) ==
  IF ~LitAt(s, i, CdoneHead) THEN -1
  ELSE LET e == RunEnd(s, i + Len(CdoneHead), CdoneClass)
       IN IF e > i + Len(CdoneHead) /\ LitAt(s, e, CdoneTail)
          THEN e + Len(CdoneTail) ELSE -1

\* the offset after the first match of cdone at or after offset i, or -1
RECURSIVE CdoneSearch(_, _)
CdoneSearch(s, i) ==
  IF i >= Len(s) THEN -1
  ELSE LET e == CdoneEndAt(s, i)
       IN IF e >= 0 THEN e ELSE CdoneSearch(s, i + 1)

\* the message holds the ready marker somewhere
HasReadyMarker(s) == CdoneSearch(s, 0) >= 0

\* regex.cdone.exec(s) of a global regex whose lastIndex is li: the search
\* starts at li, a match leaves lastIndex after it, a failure resets it to 0
CdoneExec(s, li) ==
  LET e == IF li > Len(s) THEN -1 ELSE CdoneSearch(s, li)
  IN [matched |-> e >= 0, lastIndex |-> IF e >= 0 THEN e ELSE 0]

(***************************************************************************)
(* Configuration (the cfg object given to the constructor).                *)
(***************************************************************************)
\* cfg.minecraft.dir and another directory a caller may pass to startServer
MinecraftDir == "/srv/minecraft"

OtherDir == "./minecraft"

Dirs == {MinecraftDir, OtherDir}

\* cfg.eventListeners
EventListeners ==
  << [type |-> "webhook", uri |-> "http://hook/a",
      events |-> << "status", "console" >>],
     [type |-> "webhook", uri |-> "http://hook/b",
      events |-> << "status", "modAddition", "modDeletion", "modUpdated" >>],
     [type |-> "mail", uri |-> "ops@example.org",
      events |-> << "console" >>] >>

\* commands an operator sends
Commands == {"stop"}

\* players an operator names in op and deop
Players == {"steve"}

\* the world directories cfg.minecraft.dir holds at construction, and the
\* names an operator passes to removeWorld
Worlds == {"world"}

WorldNames == {"", "world", "nether"}

\* event names an outside subscriber registers for on mc.events
ExternalEvents == {"status"}

\* console chunks the subprocess prints
ChunkDone ==
  <<"[","0",":","0","1","]"," ","[","a","/","I","]",":"," ","D","o","n","e"," ","(","1",".","5","s",")","!">>

ChunkLateDone ==
  <<"[","0",":","0","2","]"," ","[","a","/","I","]",":"," ","S","t","a","r","t","u","p"," ","n","o","w"," ","d","o","n","e"," ","(","2","s",")","!","\r","\n">>

ChunkBlank == <<"\r","\n">>

Chunks == {ChunkDone, ChunkLateDone, ChunkBlank}

\* chunks without a bracketed tag: the console prompt, and a single space
ChunkPrompt == << ">" >>

ChunkSpace == << " " >>

\* the chunks of the parser's own specification
ParserChunks == {ChunkDone, ChunkBlank, ChunkPrompt, ChunkSpace}

(***************************************************************************)
(* The mod directory and the manifest.                                     *)
(***************************************************************************)
\* the regular files that may be in the mod directory, and a subdirectory
Files == {"a.jar", "b.jar"}

SubDir == "sub"

Entries == Files \cup {SubDir}

\* sha512 digests of file contents
Hashes == {"H1", "H2"}

\* the mod directory: per entry "none" (absent), "DIR", or the digest of the
\* content of the regular file
Snapshots ==
  {d \in [Entries -> Hashes \cup {"none", "DIR"}] :
     /\ d[SubDir] = "DIR"
     /\ \A f \in Files : d[f] # "DIR"}

\* the manifests mods.json may hold when the constructor runs: one record
\* per filename
Manifests ==
  {m \in UNION {[1..n -> [filename : Files, hash : Hashes]] :
                  n \in 0..Cardinality(Files)} :
     \A i, j \in DOMAIN m : i # j => m[i].filename # m[j].filename}

\* fs.existsSync(path.join(mod_dir, name))
Exists(dir, name) == dir[name] # "none"

\* fs.lstatSync(cmod).isDirectory()
IsDirectory(dir, name) == dir[name] = "DIR"

\* an iterator that opens a read stream for every entry fs.readdir lists
RegularFilesAll(dir) == {e \in Entries : Exists(dir, e)}

\* the entries fs.readdir lists that the iterator opens a read stream for
RegularFiles(dir) == {e \in Entries : Exists(dir, e) /\ ~IsDirectory(dir, e)}

(***************************************************************************)
(* JSON.stringify and JSON.parse of a manifest.  A JSON text is the        *)
(* sequence of its tokens; a string token carries its quotes.              *)
(***************************************************************************)
Quote(str) == "\"" \o str \o "\""

\* the strings a manifest is made of
ManifestStrings == Files \cup Hashes

\* the keys of a record, in the order the code creates them
ManifestKeys == << "filename", "hash" >>

\* JSON.stringify of one record: the properties in creation order
StringifyRecord(rec) ==
  << "{", Quote(ManifestKeys[1]), ":", Quote(rec.filename), ",",
          Quote(ManifestKeys[2]), ":", Quote(rec.hash), "}" >>

\* the elements k.. of the array, separated by commas
RECURSIVE StringifyFrom(_, _)
StringifyFrom(ms, k) ==
  IF k > Len(ms) THEN << >>
  ELSE StringifyRecord(ms[k])
       \o (IF k < Len(ms) THEN << "," >> ELSE << >>)
       \o StringifyFrom(ms, k + 1)

\* JSON.stringify(self.mods)
JSONstringify(ms) == << "[" >> \o StringifyFrom(ms, 1) \o << "]" >>

\* the token is a string literal of the manifest's strings
IsString(tok) == \E str \in ManifestStrings : Quote(str) = tok

Unquote(tok) == CHOOSE str \in ManifestStrings : Quote(str) = tok

\* the tokens i+1 .. i+9 of the text are an object with the two keys, in
\* either order
ObjectAt(text, i) ==
  /\ i + 9 <= Len(text)
  /\ text[i + 1] = "{" /\ text[i + 3] = ":" /\ text[i + 5] = ","
  /\ text[i + 7] = ":" /\ text[i + 9] = "}"
  /\ {text[i + 2], text[i + 6]} = {Quote(ManifestKeys[1]), Quote(ManifestKeys[2])}
  /\ text[i + 2] # text[i + 6]
  /\ IsString(text[i + 4]) /\ IsString(text[i + 8])

\* the record the object at offset i parses to
RecordAt(text, i) ==
  IF text[i + 2] = Quote(ManifestKeys[1])
  THEN [filename |-> Unquote(text[i + 4]), hash |-> Unquote(text[i + 8])]
  ELSE [filename |-> Unquote(text[i + 8]), hash |-> Unquote(text[i + 4])]

\* the elements of the array from offset i on (an object is expected there)
\* up to the closing bracket, which is the last token
RECURSIVE ParseElements(_, _)
ParseElements(text, i) ==
  IF ~ObjectAt(text, i) THEN [threw |-> TRUE, value |-> << >>]
  ELSE IF i + 10 = Len(text)
       THEN [threw |-> FALSE, value |-> << RecordAt(text, i) >>]
       ELSE IF text[i + 10] # "," THEN [threw |-> TRUE, value |-> << >>]
            ELSE LET rest == ParseElements(text, i + 10)
                 IN [threw |-> rest.threw,
                     value |-> IF rest.threw THEN << >>
                               ELSE << RecordAt(text, i) >> \o rest.value]

\* a JSON.parse that keeps the first element of the array only
JSONparseFirst(text) ==
  IF Len(text) < 2 \/ text[1] # "[" \/ text[Len(text)] # "]"
  THEN [threw |-> TRUE, value |-> << >>]
  ELSE IF Len(text) = 2 THEN [threw |-> FALSE, value |-> << >>]
       ELSE IF ObjectAt(text, 1)
            THEN [threw |-> FALSE, value |-> << RecordAt(text, 1) >>]
            ELSE [threw |-> TRUE, value |-> << >>]

\* JSON.parse(text): a SyntaxError is thrown for anything but an array of
\* such objects
JSONparse(text) ==
  IF Len(text) < 2 \/ text[1] # "[" \/ text[Len(text)] # "]"
  THEN [threw |-> TRUE, value |-> << >>]
  ELSE IF Len(text) = 2 THEN [threw |-> FALSE, value |-> << >>]
       ELSE ParseElements(text, 1)

\* mods.json: whether the file exists, whether its bytes are the whole of a
\* JSON.stringify output, and the text it holds
NoModsJson == [exists |-> FALSE, whole |-> FALSE, text |-> << >>]

\* the file once fs.writeFile has written all of JSON.stringify(ms)
WriteModsJson(ms) == [exists |-> TRUE, whole |-> TRUE, text |-> JSONstringify(ms)]

\* the file between the open of fs.writeFile (flag 'w': created or cut to
\* length 0) and its last write
Truncated == [exists |-> TRUE, whole |-> FALSE, text |-> << >>]

\* this.mods as the constructor sets it: JSON.parse of mods.json, or [] when
\* the file is absent
LoadMods(json) ==
  IF json.exists THEN JSONparse(json.text).value ELSE << >>

\* fs.existsSync(path.join(dir, 'mods.json')): only the file in
\* cfg.minecraft.dir is ever written
ModsJsonExists(dir, json) == dir = MinecraftDir /\ json.exists

\* a sequence without its k-th element
RemoveAt(seq, k) == SubSeq(seq, 1, k - 1) \o SubSeq(seq, k + 1, Len(seq))

(***************************************************************************)
(* State.                                                                  *)
(***************************************************************************)
VARIABLES
  pty,             \* this.pty: [running, state]; state 0 is undefined
  terms,           \* the terminals spawned so far, by spawn order
  events,          \* this.events: the listeners of the current EventEmitter
  extCount,        \* listeners registered from outside so far
  logFile,         \* node-mcf.log exists in cfg.minecraft.dir
  cdoneLastIndex,  \* regex.cdone.lastIndex
  crashed,         \* the supervising node process has ended
  nChunks,         \* chunks delivered so far
  discarded,       \* outside listeners that were on the bus at a handled exit
  calls,           \* the listeners the last step called, in call order
  inflight,        \* the POSTs of the last step that have no outcome yet
  lastOutcome,     \* how a POST ended in the last step, "none" if none did
  minecraftVersion,\* cfg.minecraft.version is set
  modDir,          \* the entries of <cfg.minecraft.dir>/mods
  mods,            \* this.mods
  modsJson,        \* <cfg.minecraft.dir>/mods.json: [exists, whole, text]
  runs,            \* the builds and scans started so far, by start order
  worlds,          \* the world directories that exist in cfg.minecraft.dir
  lastCall,        \* the last call of op, deop or removeWorld and its result
  versionFile      \* <dir>/version.json of each directory: [exists, text]

\* the state of the mod reader
modVars == << minecraftVersion, modDir, mods, modsJson, runs >>

vars == << pty, terms, events, extCount, logFile, cdoneLastIndex, crashed,
           nChunks, discarded, calls, inflight, lastOutcome,
           minecraftVersion, modDir, mods, modsJson, runs, worlds, lastCall,
           versionFile >>

\* what op, deop and removeWorld write besides the terminals
apiVars == << worlds, lastCall >>

(***************************************************************************)
(* The event bus.                                                          *)
(***************************************************************************)
\* the listeners populateEvents registers for eventListeners[i]
RECURSIVE ListenersOf(_, _)
ListenersOf(i, j) ==
  IF j > Len(EventListeners[i].events) THEN << >>
  ELSE << [sub |-> i, ext |-> 0, event |-> EventListeners[i].events[j]] >>
       \o ListenersOf(i, j + 1)

RECURSIVE ListenersFrom(_)
ListenersFrom(i) ==
  IF i > Len(EventListeners) THEN << >>
  ELSE ListenersOf(i, 1) \o ListenersFrom(i + 1)

\* a startServer that registers no listener
populateEventsSkipped(bus) == bus

\* populateEvents(): one listener per configured (subscription, event) pair
\* is added to the current emitter, after those it already holds
populateEvents(bus) == bus \o ListenersFrom(1)

\* events.emit(name, data): the listeners called, in registration order
RECURSIVE Emit(_, _, _)
Emit(bus, name, data) ==
  IF bus = << >> THEN << >>
  ELSE (IF Head(bus).event = name
        THEN << [sub |-> Head(bus).sub, ext |-> Head(bus).ext,
                 event |-> name, data |-> data] >>
        ELSE << >>)
       \o Emit(Tail(bus), name, data)

\* the listeners called for a sequence of publishes, in order
RECURSIVE EmitAll(_, _)
EmitAll(bus, pubs) ==
  IF pubs = << >> THEN << >>
  ELSE Emit(bus, Head(pubs).event, Head(pubs).data) \o EmitAll(bus, Tail(pubs))

\* a sendEvent that POSTs whatever the type
sendEventAnyType(type, to, args) == << [url |-> to, body |-> args] >>

\* sendEvent(type, to, args): the HTTP POSTs made
sendEvent(type, to, args) ==
  IF type = "webhook" THEN << [url |-> to, body |-> args] >> ELSE << >>

\* the POSTs made by the listeners of populateEvents among the calls
RECURSIVE PostsOf(_)
PostsOf(cs) ==
  IF cs = << >> THEN << >>
  ELSE (IF Head(cs).sub > 0
        THEN sendEvent(EventListeners[Head(cs).sub].type,
                       EventListeners[Head(cs).sub].uri,
                       [event |-> Head(cs).event, data |-> Head(cs).data])
        ELSE << >>)
       \o PostsOf(Tail(cs))

\* an exit handler that keeps the emitter and its listeners
KeptEmitter(bus) == bus

\* removeAllListeners() and a new EventEmitter
FreshEmitter(bus) == << >>

\* the ext fields of the listeners on the bus (0: a configured listener)
ExtIds(bus) == {bus[k].ext : k \in DOMAIN bus}

(***************************************************************************)
(* version.json.  A JavaScript value is written as a string here:          *)
(* "undefined" and "false" stand for undefined and false, any other string *)
(* for itself.  A JSON text is the sequence of its tokens.                 *)
(***************************************************************************)
\* cfg.minecraft.forge
CfgForge == "1.8.9-11.15.1.1752"

\* the forge version of an earlier configuration
OldForge == "1.8.9-11.14.4.1563"

Forges == {OldForge, CfgForge}

\* cfg.minecraft.version when it is set
McVersion == "1.8.9"

VersionValues == {"undefined", "false", McVersion}

\* the keys of the version object, in the order the code creates them
VersionKeys == << "version", "forge" >>

\* JSON.stringify of one property value: false is the literal, a string is
\* quoted
StringifyValue(val) == IF val = "false" THEN "false" ELSE Quote(val)

\* JSON.stringify(data): a property whose value is undefined is left out
StringifyVersion(data) ==
  << "{" >>
  \o (IF data.version = "undefined" THEN << >>
      ELSE << Quote(VersionKeys[1]), ":", StringifyValue(data.version), "," >>)
  \o << Quote(VersionKeys[2]), ":", StringifyValue(data.forge), "}" >>

\* the value a token stands for
ParseValue(tok) ==
  IF tok = "false" THEN "false"
  ELSE CHOOSE str \in Forges \cup {McVersion} : Quote(str) = tok

\* the value of the property key in the parsed object, undefined without it
ValueOf(text, key) ==
  IF \E i \in 1..(Len(text) - 2) : text[i] = Quote(key) /\ text[i + 1] = ":"
  THEN ParseValue(text[2 + CHOOSE i \in 1..(Len(text) - 2) :
                              text[i] = Quote(key) /\ text[i + 1] = ":"])
  ELSE "undefined"

\* JSON.parse(fs.readFileSync(versionFile))
ParseVersion(text) ==
  [version |-> ValueOf(text, VersionKeys[1]),
   forge |-> ValueOf(text, VersionKeys[2])]

NoVersionFile == [exists |-> FALSE, text |-> << >>]

\* fs.writeFileSync(versionFile, JSON.stringify(data), 'utf8')
WriteVersion(data) == [exists |-> TRUE, text |-> StringifyVersion(data)]

\* the version files a directory can hold
VersionFiles ==
  {NoVersionFile}
    \cup {WriteVersion([version |-> v, forge |-> f]) :
            v \in VersionValues, f \in Forges}

(***************************************************************************)
(* constructor(cfg)                                                        *)
(***************************************************************************)
\* the fields the constructor sets whatever the configuration
InitSupervisor ==
  /\ pty = [running |-> FALSE, state |-> 0]
  /\ terms = << >>
  /\ events = << >>
  /\ extCount = 0
  /\ logFile = FALSE
  /\ cdoneLastIndex = 0
  /\ crashed = FALSE
  /\ nChunks = 0
  /\ discarded = {}
  /\ calls = << >>
  /\ inflight = << >>
  /\ lastOutcome = "none"
  /\ runs = << >>
  /\ worlds = Worlds
  /\ lastCall = [call |-> "none", arg |-> "", ret |-> FALSE, n |-> 0]

\* cfg.minecraft.version set, no mods.json and no mod in the mod directory
Init ==
  /\ InitSupervisor
  /\ minecraftVersion = TRUE
  /\ modDir = [e \in Entries |-> IF e = SubDir THEN "DIR" ELSE "none"]
  /\ modsJson = NoModsJson
  /\ mods = << >>
  /\ versionFile = [d \in Dirs |-> NoVersionFile]

\* cfg.minecraft.version unset; this.mods is what mods.json holds, or empty
\* when there is no mods.json
InitMods ==
  /\ InitSupervisor
  /\ minecraftVersion = FALSE
  /\ modDir \in Snapshots
  /\ modsJson \in {NoModsJson} \cup {WriteModsJson(m) : m \in Manifests}
  /\ mods = LoadMods(modsJson)
  /\ versionFile = [d \in Dirs |-> NoVersionFile]

(***************************************************************************)
(* isPtyRunning(), writeToPty(data), sendCommand(cmd)                      *)
(***************************************************************************)
isPtyRunning(p) == p.running

\* a writeToPty without the isPtyRunning test: the write goes to the last
\* terminal spawned, if there is one
writeToPtyUnguarded(p, tms, data) ==
  IF tms # << >>
  THEN [ret |-> TRUE,
        terms |-> [tms EXCEPT ![Len(tms)].input = Append(@, data \o "\r")]]
  ELSE [ret |-> FALSE, terms |-> tms]

\* writeToPty(data): the result, and the terminals after the write
writeToPty(p, tms, data) ==
  IF isPtyRunning(p)
  THEN [ret |-> TRUE,
        terms |-> [tms EXCEPT ![p.state].input = Append(@, data \o "\r")]]
  ELSE [ret |-> FALSE, terms |-> tms]

sendCommand(p, tms, cmd) ==
  LET res == writeToPty(p, tms, cmd)
  IN IF ~res.ret THEN [ret |-> FALSE, terms |-> res.terms]
     ELSE [ret |-> TRUE, terms |-> res.terms]

\* the number of writes the terminals have received
RECURSIVE Writes(_)
Writes(tms) ==
  IF tms = << >> THEN 0 ELSE Len(Head(tms).input) + Writes(Tail(tms))

SendCommand(cmd) ==
  /\ ~crashed
  /\ isPtyRunning(pty) => Writes(terms) < MaxWrites
  /\ terms' = sendCommand(pty, terms, cmd).terms
  /\ calls' = << >>
  /\ inflight' = << >>
  /\ lastOutcome' = "none"
  /\ UNCHANGED << pty, events, extCount, logFile, cdoneLastIndex, crashed,
                  nChunks, discarded >>
  /\ UNCHANGED modVars
  /\ UNCHANGED apiVars
  /\ UNCHANGED versionFile

(***************************************************************************)
(* op(player), deop(player)                                                *)
(***************************************************************************)
\* an op that leaves the isPtyRunning test to writeToPty and sends the
\* player's name alone
opBare(p, tms, player) == sendCommand(p, tms, player)

op(p, tms, player) ==
  IF ~isPtyRunning(p) THEN [ret |-> FALSE, terms |-> tms]
  ELSE sendCommand(p, tms, "op " \o player)

deop(p, tms, player) ==
  IF ~isPtyRunning(p) THEN [ret |-> FALSE, terms |-> tms]
  ELSE sendCommand(p, tms, "deop " \o player)

\* the record of a call: n alternates, so that two equal calls in a row
\* differ
Called(call, arg, ret) ==
  [call |-> call, arg |-> arg, ret |-> ret, n |-> 1 - lastCall.n]

Op(player) ==
  /\ ~crashed
  /\ isPtyRunning(pty) => Writes(terms) < MaxWrites
  /\ terms' = op(pty, terms, player).terms
  /\ lastCall' = Called("op", player, op(pty, terms, player).ret)
  /\ calls' = << >>
  /\ inflight' = << >>
  /\ lastOutcome' = "none"
  /\ UNCHANGED << pty, events, extCount, logFile, cdoneLastIndex, crashed,
                  nChunks, discarded, worlds >>
  /\ UNCHANGED modVars
  /\ UNCHANGED versionFile

Deop(player) ==
  /\ ~crashed
  /\ isPtyRunning(pty) => Writes(terms) < MaxWrites
  /\ terms' = deop(pty, terms, player).terms
  /\ lastCall' = Called("deop", player, deop(pty, terms, player).ret)
  /\ calls' = << >>
  /\ inflight' = << >>
  /\ lastOutcome' = "none"
  /\ UNCHANGED << pty, events, extCount, logFile, cdoneLastIndex, crashed,
                  nChunks, discarded, worlds >>
  /\ UNCHANGED modVars
  /\ UNCHANGED versionFile

(***************************************************************************)
(* removeWorld(name)                                                       *)
(***************************************************************************)
\* the response objects
Failure(reason) == [success |-> FALSE, reason |-> reason]

Success == [success |-> TRUE, reason |-> "none"]

\* a removeWorld that tests the directory before the pty
removeWorldDirFirst(p, ws, name) ==
  IF name = "" THEN [ret |-> Failure("INVOKE"), worlds |-> ws]
  ELSE IF name \in ws THEN [ret |-> Success, worlds |-> ws \ {name}]
  ELSE IF isPtyRunning(p) THEN [ret |-> Failure("PTY"), worlds |-> ws]
  ELSE [ret |-> Failure("NOTEXIST"), worlds |-> ws]

\* removeWorld(name): the response, and the world directories afterwards;
\* deleteFolderRecursive removes the whole tree of worldDir
removeWorld(p, ws, name) ==
  IF name = "" THEN [ret |-> Failure("INVOKE"), worlds |-> ws]
  ELSE IF isPtyRunning(p) THEN [ret |-> Failure("PTY"), worlds |-> ws]
  ELSE IF name \in ws THEN [ret |-> Success, worlds |-> ws \ {name}]
  ELSE [ret |-> Failure("NOTEXIST"), worlds |-> ws]

RemoveWorld(name) ==
  /\ ~crashed
  /\ worlds' = removeWorld(pty, worlds, name).worlds
  /\ lastCall' = Called("removeWorld", name, removeWorld(pty, worlds, name).ret)
  /\ calls' = << >>
  /\ inflight' = << >>
  /\ lastOutcome' = "none"
  /\ UNCHANGED << pty, terms, events, extCount, logFile, cdoneLastIndex,
                  crashed, nChunks, discarded >>
  /\ UNCHANGED modVars
  /\ UNCHANGED versionFile

(***************************************************************************)
(* buildModDatabase() and scanForNewMods(), up to the fs.readdir call      *)
(***************************************************************************)
\* a build or scan that waits for fs.readdir, with the events queued so far
NewRun(kind, queue) ==
  [kind |-> kind, stage |-> "readdir", pending |-> {}, queue |-> queue,
   pubs |-> << >>, data |-> << >>]

buildModDatabase == NewRun("build", << >>)

\* the deletion pass: for (let mod of self.mods) with the counter i, which
\* is also the index the array iterator is at; splice(i, 1) moves the later
\* records one down while the iterator goes on to i + 1
RECURSIVE DeletionPass(_, _, _, _)
DeletionPass(ms, i, q, dir) ==
  IF i >= Len(ms) THEN [mods |-> ms, queue |-> q]
  ELSE IF ~Exists(dir, ms[i + 1].filename)
       THEN DeletionPass(RemoveAt(ms, i + 1), i + 1,
                         Append(q, [data |-> ms[i + 1], event |-> "modDeletion"]),
                         dir)
       ELSE DeletionPass(ms, i + 1, q, dir)

scanForNewMods(ms, dir) ==
  LET pass == DeletionPass(ms, 0, << >>, dir)
  IN [mods |-> pass.mods, run |-> NewRun("scan", pass.queue)]

(***************************************************************************)
(* startServer(opts, dir)                                                  *)
(***************************************************************************)
\* a terminal just spawned, which has published pubs
NewTerm(pubs) ==
  [exited |-> FALSE, input |-> << >>, log |-> << >>, pubs |-> pubs]

\* a spawn that leaves pty.running false until the ready signal
PtySpawnedNotRunning(n) == [running |-> FALSE, state |-> n]

\* this.pty once the terminal n is spawned
PtySpawned(n) == [running |-> TRUE, state |-> n]

\* what startServer publishes once the terminal is spawned
StartPublishes == << [event |-> "status", data |-> "starting"] >>

\* startServer(opts, dir): the log stream is created (its open is taken to
\* complete before the terminal's first event, so node-mcf.log exists in dir
\* from here on), the configured listeners are registered, the terminal is
\* spawned and recorded in this.pty, and 'status: starting' is emitted.
\* Without cfg.minecraft.version the mod reader is started before the spawn:
\* the initial build when dir has no mods.json, the scan otherwise.
Start(dir) ==
  /\ ~crashed
  /\ Len(terms) < MaxStarts
  /\ IF minecraftVersion THEN UNCHANGED << mods, runs >>
     ELSE IF ~ModsJsonExists(dir, modsJson)
          THEN /\ mods' = mods
               /\ runs' = Append(runs, buildModDatabase)
          ELSE /\ mods' = scanForNewMods(mods, modDir).mods
               /\ runs' = Append(runs, scanForNewMods(mods, modDir).run)
  /\ UNCHANGED << minecraftVersion, modDir, modsJson >>
  /\ LET bus == populateEvents(events)
         n == Len(terms) + 1
     IN /\ events' = bus
        /\ logFile' = (logFile \/ dir = MinecraftDir)
        /\ terms' = Append(terms, NewTerm(StartPublishes))
        /\ pty' = PtySpawned(n)
        /\ calls' = EmitAll(bus, StartPublishes)
        /\ inflight' = PostsOf(EmitAll(bus, StartPublishes))
        /\ lastOutcome' = "none"
  /\ UNCHANGED << extCount, cdoneLastIndex, crashed, nChunks, discarded >>
  /\ UNCHANGED apiVars
  /\ UNCHANGED versionFile

(***************************************************************************)
(* startServer(opts, dir) of revision 0.0.1, which checks version.json     *)
(* before the spawn.                                                       *)
(***************************************************************************)
\* the value of cfg.minecraft.version: the configuration that uses forge
\* sets version: false
CfgVersion(set) == IF set THEN McVersion ELSE "false"

\* the version check: version.json is created from the configuration when
\* dir has none; a file that records version false and another forge than
\* the configured one has the installer run (taken to return), its forge
\* property assigned, the file rewritten and 'versionChange' emitted, whose
\* oldVersion is read from the object after the assignment
VersionCheck(file, cfgVersion, cfgForge) ==
  LET created == IF file.exists THEN file
                 ELSE WriteVersion([version |-> cfgVersion, forge |-> cfgForge])
      versionFileC == ParseVersion(created.text)
      assigned == [versionFileC EXCEPT !.forge = cfgForge]
  IN IF versionFileC.version = "false" /\ versionFileC.forge # cfgForge
     THEN [file |-> WriteVersion(assigned),
           pubs |-> << [event |-> "versionChange",
                        data |-> [newVersion |-> cfgForge,
                                  oldVersion |-> assigned.forge]] >>]
     ELSE [file |-> created, pubs |-> << >>]

\* startServer(opts, dir) of revision 0.0.1: as Start, with the version
\* check between the start of the mod reader and the spawn
StartChecked(dir) ==
  /\ ~crashed
  /\ Len(terms) < MaxStarts
  /\ IF minecraftVersion THEN UNCHANGED << mods, runs >>
     ELSE IF ~ModsJsonExists(dir, modsJson)
          THEN /\ mods' = mods
               /\ runs' = Append(runs, buildModDatabase)
          ELSE /\ mods' = scanForNewMods(mods, modDir).mods
               /\ runs' = Append(runs, scanForNewMods(mods, modDir).run)
  /\ UNCHANGED << minecraftVersion, modDir, modsJson >>
  /\ LET bus == populateEvents(events)
         n == Len(terms) + 1
         check == VersionCheck(versionFile[dir], CfgVersion(minecraftVersion),
                               CfgForge)
         pubs == check.pubs \o StartPublishes
     IN /\ events' = bus
        /\ logFile' = (logFile \/ dir = MinecraftDir)
        /\ versionFile' = [versionFile EXCEPT ![dir] = check.file]
        /\ terms' = Append(terms, NewTerm(pubs))
        /\ pty' = PtySpawned(n)
        /\ calls' = EmitAll(bus, pubs)
        /\ inflight' = PostsOf(EmitAll(bus, pubs))
        /\ lastOutcome' = "none"
  /\ UNCHANGED << extCount, cdoneLastIndex, crashed, nChunks, discarded >>
  /\ UNCHANGED apiVars

(***************************************************************************)
(* term.on('data')                                                         *)
(***************************************************************************)
\* the array emitted as the console event: the tags, then the message
ConsoleRes(data) == Append(getRegexMatches(data), Cinfo(data))

\* the console event is emitted for this array
ConsoleEmitted(res) == res[1] # << " " >> /\ res[1] # << >>

\* the parse of each chunk the subprocess prints (the same for every call)
Parsed ==
  [data \in Chunks \cup ParserChunks |->
     [res |-> ConsoleRes(data), cinfo |-> Cinfo(data)]]

\* a handler that emits the console event twice
DataPublishesTwice(data, li) ==
  (IF ConsoleEmitted(Parsed[data].res)
   THEN << [event |-> "console", data |-> Parsed[data].res],
           [event |-> "console", data |-> Parsed[data].res] >> ELSE << >>)
  \o
  (IF CdoneExec(Parsed[data].cinfo, li).matched
   THEN << [event |-> "status", data |-> "up"] >> ELSE << >>)

\* what the handler publishes for a chunk when regex.cdone.lastIndex is li
DataPublishes(data, li) ==
  (IF ConsoleEmitted(Parsed[data].res)
   THEN << [event |-> "console", data |-> Parsed[data].res] >> ELSE << >>)
  \o
  (IF CdoneExec(Parsed[data].cinfo, li).matched
   THEN << [event |-> "status", data |-> "up"] >> ELSE << >>)

Data(t, data) ==
  /\ ~crashed
  /\ t \in DOMAIN terms
  /\ ~terms[t].exited
  /\ nChunks < MaxChunks
  /\ LET pubs == DataPublishes(data, cdoneLastIndex)
     IN /\ terms' = [terms EXCEPT ![t].pubs = @ \o pubs,
                                  ![t].log = Append(@, data \o << "\n" >>)]
        /\ calls' = EmitAll(events, pubs)
        /\ inflight' = PostsOf(EmitAll(events, pubs))
        /\ lastOutcome' = "none"
  /\ cdoneLastIndex' = CdoneExec(Parsed[data].cinfo, cdoneLastIndex).lastIndex
  /\ nChunks' = nChunks + 1
  /\ UNCHANGED << pty, events, extCount, logFile, crashed, discarded >>
  /\ UNCHANGED modVars
  /\ UNCHANGED apiVars
  /\ UNCHANGED versionFile

(***************************************************************************)
(* term.on('exit')                                                         *)
(***************************************************************************)
\* an exit handler that leaves this.pty.state as it is
PtyExitedKeepsHandle == [running |-> FALSE, state |-> pty.state]

\* this.pty after the exit handler
PtyExited == [running |-> FALSE, state |-> 0]

\* what the exit handler publishes
ExitPublishes == << [event |-> "status", data |-> "down"] >>

\* unlinkSync of node-mcf.log in cfg.minecraft.dir throws when the file
\* is not there; nothing catches it, and the node process ends
Exit(t) ==
  /\ ~crashed
  /\ t \in DOMAIN terms
  /\ ~terms[t].exited
  /\ IF ~logFile
     THEN /\ crashed' = TRUE
          /\ terms' = [terms EXCEPT ![t].exited = TRUE]
          /\ calls' = << >>
          /\ inflight' = << >>
          /\ lastOutcome' = "none"
          /\ UNCHANGED << pty, events, logFile, discarded >>
     ELSE /\ logFile' = FALSE
          /\ calls' = EmitAll(events, ExitPublishes)
          /\ inflight' = PostsOf(EmitAll(events, ExitPublishes))
          /\ lastOutcome' = "none"
          /\ terms' = [terms EXCEPT ![t].exited = TRUE,
                                    ![t].pubs = @ \o ExitPublishes]
          /\ pty' = PtyExited
          /\ events' = FreshEmitter(events)
          /\ discarded' = discarded \cup (ExtIds(events) \ {0})
          /\ UNCHANGED crashed
  /\ UNCHANGED << extCount, cdoneLastIndex, nChunks >>
  /\ UNCHANGED modVars
  /\ UNCHANGED apiVars
  /\ UNCHANGED versionFile

(***************************************************************************)
(* The callbacks of buildModDatabase() and scanForNewMods()                *)
(***************************************************************************)
\* the data of the queued events of one kind, in queue order
RECURSIVE BatchData(_, _)
BatchData(q, event) ==
  IF q = << >> THEN << >>
  ELSE (IF Head(q).event = event THEN << Head(q).data >> ELSE << >>)
       \o BatchData(Tail(q), event)

\* a sendEvents that publishes the batch of the kind even when it is empty
sendEventsAlways(q, event) ==
  << [event |-> event, data |-> [mods |-> BatchData(q, event)]] >>

\* sendEvents(a, event): the publish made, none when no event of the kind
\* is queued
sendEvents(q, event) ==
  LET data == BatchData(q, event)
  IN IF data = << >> THEN << >>
     ELSE << [event |-> event, data |-> [mods |-> data]] >>

\* what the final callback of the scan publishes
ScanPublishes(q) ==
  sendEvents(q, "modAddition") \o sendEvents(q, "modDeletion")
  \o sendEvents(q, "modUpdated")

\* self.mods.filter(obj => obj.filename === mod)[0]; << >> is undefined
Installed(ms, f) ==
  LET idx == {k \in DOMAIN ms : ms[k].filename = f}
  IN IF idx = {} THEN << >>
     ELSE << ms[CHOOSE k \in idx : \A j \in idx : k <= j] >>

\* fd.on('end') of the scan for the file f with digest h.  In the update
\* branch self.mods[mod_installed.index] is read: a record has the fields
\* filename and hash only, the index is undefined, the element read is
\* undefined, and the assignment to its hash throws a TypeError.
ScanEnd(ms, q, f, h) ==
  LET found == Installed(ms, f)
      rec == [filename |-> f, hash |-> h]
  IN IF found = << >>
     THEN [threw |-> FALSE, mods |-> Append(ms, rec),
           queue |-> Append(q, [data |-> rec, event |-> "modAddition"])]
     ELSE IF h # found[1].hash
          THEN IF "index" \in DOMAIN found[1]
               THEN [threw |-> FALSE,
                     mods |-> [ms EXCEPT ![found[1].index + 1].hash = h],
                     queue |-> Append(q, [data |-> rec, event |-> "modUpdated"])]
               ELSE [threw |-> TRUE, mods |-> ms, queue |-> q]
          ELSE [threw |-> FALSE, mods |-> ms, queue |-> q]

\* fd.on('end') of the build: the record is pushed whatever this.mods holds
BuildEnd(ms, q, f, h) ==
  [threw |-> FALSE, mods |-> Append(ms, [filename |-> f, hash |-> h]),
   queue |-> q]

\* the run once the end callbacks left are those of the files in rest; with
\* none left the final callback has run and has called fs.writeFile
Advance(run, q, rest) ==
  [run EXCEPT !.pending = rest, !.queue = q,
              !.stage = IF rest = {} THEN "writing" ELSE "hashing",
              !.pubs = IF rest = {} /\ run.kind = "scan"
                       THEN ScanPublishes(q) ELSE << >>]

\* the step of run r that leaves its end callbacks of the files in rest
\* outstanding, with this.mods and the queue as given: with none left the
\* final callback runs in the same step (the scan publishes its batches,
\* and fs.writeFile is called with JSON.stringify(self.mods) as data)
RunStep(r, ms, q, rest) ==
  LET run == [Advance(runs[r], q, rest) EXCEPT
                !.data = IF rest = {} THEN ms ELSE @]
  IN /\ runs' = [runs EXCEPT ![r] = run]
     /\ mods' = ms
     /\ UNCHANGED modsJson
     /\ calls' = EmitAll(events, run.pubs)
     /\ inflight' = PostsOf(EmitAll(events, run.pubs))
     /\ UNCHANGED crashed

\* the callback of fs.readdir: every entry that is no directory gets a read
\* stream; async.each calls the final callback at once when none does
Readdir(r) ==
  /\ ~crashed
  /\ r \in DOMAIN runs
  /\ runs[r].stage = "readdir"
  /\ RunStep(r, mods, runs[r].queue, RegularFiles(modDir))
  /\ lastOutcome' = "none"
  /\ UNCHANGED << pty, terms, events, extCount, logFile, cdoneLastIndex,
                  nChunks, discarded, minecraftVersion, modDir >>
  /\ UNCHANGED apiVars
  /\ UNCHANGED versionFile

\* fd.on('end') for the file f of run r; an exception thrown in it is
\* caught by nothing and ends the node process
Hashed(r, f) ==
  /\ ~crashed
  /\ r \in DOMAIN runs
  /\ runs[r].stage = "hashing"
  /\ f \in runs[r].pending
  /\ LET res == IF runs[r].kind = "scan"
                THEN ScanEnd(mods, runs[r].queue, f, modDir[f])
                ELSE BuildEnd(mods, runs[r].queue, f, modDir[f])
     IN IF res.threw
        THEN /\ crashed' = TRUE
             /\ calls' = << >>
             /\ inflight' = << >>
             /\ UNCHANGED << mods, modsJson, runs >>
        ELSE RunStep(r, res.mods, res.queue, runs[r].pending \ {f})
  /\ lastOutcome' = "none"
  /\ UNCHANGED << pty, terms, events, extCount, logFile, cdoneLastIndex,
                  nChunks, discarded, minecraftVersion, modDir >>
  /\ UNCHANGED apiVars
  /\ UNCHANGED versionFile

\* a readdir callback that goes on after an error as if the directory had
\* no entry
ReaddirFailedSwallowed(r) ==
  /\ ~crashed
  /\ r \in DOMAIN runs
  /\ runs[r].stage = "readdir"
  /\ LET run == [runs[r] EXCEPT !.stage = "failed",
                                !.pubs = IF @ = << >> /\ runs[r].kind = "scan"
                                         THEN ScanPublishes(runs[r].queue)
                                         ELSE << >>]
     IN /\ runs' = [runs EXCEPT ![r] = run]
        /\ calls' = EmitAll(events, run.pubs)
        /\ inflight' = PostsOf(EmitAll(events, run.pubs))
  /\ modsJson' = WriteModsJson(mods)
  /\ lastOutcome' = "none"
  /\ UNCHANGED << pty, terms, events, extCount, logFile, cdoneLastIndex,
                  crashed, nChunks, discarded, minecraftVersion, modDir, mods >>
  /\ UNCHANGED apiVars
  /\ UNCHANGED versionFile

\* the callback of fs.readdir with an error: two console.log lines, then
\* process.exit(1); the run is left in the stage "failed"
ReaddirFailed(r) ==
  /\ ~crashed
  /\ r \in DOMAIN runs
  /\ runs[r].stage = "readdir"
  /\ runs' = [runs EXCEPT ![r].stage = "failed"]
  /\ crashed' = TRUE
  /\ calls' = << >>
  /\ inflight' = << >>
  /\ lastOutcome' = "none"
  /\ UNCHANGED << pty, terms, events, extCount, logFile, cdoneLastIndex,
                  nChunks, discarded, minecraftVersion, modDir, mods,
                  modsJson >>
  /\ UNCHANGED apiVars
  /\ UNCHANGED versionFile

(***************************************************************************)
(* fs.writeFile(mods.json, data, callback) of a final callback             *)
(***************************************************************************)
\* the open of fs.writeFile of run r
WriteOpen(r) ==
  /\ ~crashed
  /\ r \in DOMAIN runs
  /\ runs[r].stage = "writing"
  /\ runs' = [runs EXCEPT ![r].stage = "opened"]
  /\ modsJson' = Truncated
  /\ calls' = << >>
  /\ inflight' = << >>
  /\ lastOutcome' = "none"
  /\ UNCHANGED << pty, terms, events, extCount, logFile, cdoneLastIndex,
                  crashed, nChunks, discarded, minecraftVersion, modDir, mods >>
  /\ UNCHANGED apiVars
  /\ UNCHANGED versionFile

\* the end of fs.writeFile of run r and its callback: with err the bytes
\* written so far stay and the callback calls process.exit(1)
WriteEnd(r, err) ==
  /\ ~crashed
  /\ r \in DOMAIN runs
  /\ runs[r].stage = "opened"
  /\ runs' = [runs EXCEPT ![r].stage = "done"]
  /\ modsJson' = IF err THEN modsJson ELSE WriteModsJson(runs[r].data)
  /\ crashed' = err
  /\ calls' = << >>
  /\ inflight' = << >>
  /\ lastOutcome' = "none"
  /\ UNCHANGED << pty, terms, events, extCount, logFile, cdoneLastIndex,
                  nChunks, discarded, minecraftVersion, modDir, mods >>
  /\ UNCHANGED apiVars
  /\ UNCHANGED versionFile

(***************************************************************************)
(* mc.events.on(name, fn) by a subscriber outside the class                *)
(***************************************************************************)
Subscribe(name) ==
  /\ ~crashed
  /\ extCount < MaxExt
  /\ extCount' = extCount + 1
  /\ events' = Append(events, [sub |-> 0, ext |-> extCount + 1, event |-> name])
  /\ calls' = << >>
  /\ inflight' = << >>
  /\ lastOutcome' = "none"
  /\ UNCHANGED << pty, terms, logFile, cdoneLastIndex, crashed, nChunks,
                  discarded >>
  /\ UNCHANGED modVars
  /\ UNCHANGED apiVars
  /\ UNCHANGED versionFile

(***************************************************************************)
(* The outcome of a POST of sendEvent                                      *)
(***************************************************************************)
\* how a request ends: a 2xx response, another response, a network error
Outcomes == {"2xx", "non2xx", "error"}

\* an error handler that sends the request again
OnDeliveryErrorRetry(post) == << post >>

\* res.on('error'): the POSTs the handler makes; it only logs
OnDeliveryError(post) == << >>

\* the k-th outstanding request ends with the outcome; only 'error' has a
\* handler
Respond(k, outcome) ==
  /\ ~crashed
  /\ k \in DOMAIN inflight
  /\ inflight' = RemoveAt(inflight, k)
                 \o (IF outcome = "error" THEN OnDeliveryError(inflight[k])
                     ELSE << >>)
  /\ calls' = << >>
  /\ lastOutcome' = outcome
  /\ UNCHANGED << pty, terms, events, extCount, logFile, cdoneLastIndex,
                  crashed, nChunks, discarded >>
  /\ UNCHANGED modVars
  /\ UNCHANGED apiVars
  /\ UNCHANGED versionFile

(***************************************************************************)
(* The supervisor with cfg.minecraft.version set: every call and handler.  *)
(***************************************************************************)
Next ==
  \/ \E dir \in Dirs : Start(dir)
  \/ \E t \in 1..MaxStarts, data \in Chunks : Data(t, data)
  \/ \E t \in 1..MaxStarts : Exit(t)
  \/ \E cmd \in Commands : SendCommand(cmd)
  \/ \E name \in ExternalEvents : Subscribe(name)
  \/ \E k \in DOMAIN inflight, outcome \in Outcomes : Respond(k, outcome)

Spec == Init /\ [][Next]_vars

(***************************************************************************)
(* The command path: the calls and handlers that read or write this.pty    *)
(* and the terminals.  Registrations from outside change this.events       *)
(* only, which none of these reads to decide what it does to this.pty or   *)
(* to a terminal.                                                          *)
(***************************************************************************)
NextCommands ==
  \/ \E dir \in Dirs : Start(dir)
  \/ \E t \in 1..MaxStarts, data \in Chunks : Data(t, data)
  \/ \E t \in 1..MaxStarts : Exit(t)
  \/ \E cmd \in Commands : SendCommand(cmd)

SpecCommands == Init /\ [][NextCommands]_vars

(***************************************************************************)
(* The console parser: the lifecycle with chunks that have no bracketed    *)
(* tag among those the subprocess prints.                                  *)
(***************************************************************************)
NextParser ==
  \/ \E dir \in Dirs : Start(dir)
  \/ \E t \in 1..MaxStarts, data \in ParserChunks : Data(t, data)
  \/ \E t \in 1..MaxStarts : Exit(t)

SpecParser == Init /\ [][NextParser]_vars

(***************************************************************************)
(* The operator path: op and deop besides the spawn and the exit, the     *)
(* only steps that write this.pty.                                         *)
(***************************************************************************)
NextOps ==
  \/ \E dir \in Dirs : Start(dir)
  \/ \E t \in 1..MaxStarts : Exit(t)
  \/ \E player \in Players : Op(player)
  \/ \E player \in Players : Deop(player)

SpecOps == Init /\ [][NextOps]_vars

(***************************************************************************)
(* The version path: the starts of revision 0.0.1, which has no guard      *)
(* against a second start either, from every content of the version files. *)
(***************************************************************************)
InitVersion ==
  /\ InitSupervisor
  /\ minecraftVersion \in BOOLEAN
  /\ modDir = [e \in Entries |-> IF e = SubDir THEN "DIR" ELSE "none"]
  /\ modsJson = NoModsJson
  /\ mods = << >>
  /\ versionFile \in [Dirs -> VersionFiles]

NextVersion == \E dir \in Dirs : StartChecked(dir)

SpecVersion == InitVersion /\ [][NextVersion]_vars

(***************************************************************************)
(* The world path: removeWorld besides the lifecycle.                      *)
(***************************************************************************)
NextWorlds ==
  \/ \E dir \in Dirs : Start(dir)
  \/ \E t \in 1..MaxStarts, data \in Chunks : Data(t, data)
  \/ \E t \in 1..MaxStarts : Exit(t)
  \/ \E name \in WorldNames : RemoveWorld(name)

SpecWorlds == Init /\ [][NextWorlds]_vars

(***************************************************************************)
(* The event path: the calls and handlers that read or write this.events.  *)
(* sendCommand changes the input of a terminal only, which none of these   *)
(* reads.                                                                  *)
(***************************************************************************)
NextEvents ==
  \/ \E dir \in Dirs : Start(dir)
  \/ \E t \in 1..MaxStarts, data \in Chunks : Data(t, data)
  \/ \E t \in 1..MaxStarts : Exit(t)
  \/ \E name \in ExternalEvents : Subscribe(name)

SpecEvents == Init /\ [][NextEvents]_vars

(***************************************************************************)
(* The delivery path: the status publishers (startServer and the exit     *)
(* handler) and the outcomes of their POSTs.                               *)
(***************************************************************************)
NextDelivery ==
  \/ \E dir \in Dirs : Start(dir)
  \/ \E t \in 1..MaxStarts : Exit(t)
  \/ \E k \in DOMAIN inflight, outcome \in Outcomes : Respond(k, outcome)

SpecDelivery == Init /\ [][NextDelivery]_vars

(***************************************************************************)
(* The mod reader: the supervisor without cfg.minecraft.version, whose     *)
(* startServer starts the build or the scan, and their callbacks.          *)
(***************************************************************************)
NextMods ==
  \/ \E dir \in Dirs : Start(dir)
  \/ \E t \in 1..MaxStarts : Exit(t)
  \/ \E r \in 1..MaxStarts : Readdir(r)
  \/ \E r \in 1..MaxStarts, f \in Files : Hashed(r, f)
  \/ \E r \in 1..MaxStarts : ReaddirFailed(r)
  \/ \E r \in 1..MaxStarts : WriteOpen(r)
  \/ \E r \in 1..MaxStarts, err \in BOOLEAN : WriteEnd(r, err)

SpecMods == InitMods /\ [][NextMods]_vars

(***************************************************************************)
(* The mod reader with one build or scan at a time: startServer is called  *)
(* only when the builds and scans started earlier have run their final     *)
(* callback.                                                               *)
(***************************************************************************)
StartWhenIdle(dir) ==
  /\ \A r \in DOMAIN runs : runs[r].stage = "done"
  /\ Start(dir)

NextScans ==
  \/ \E dir \in Dirs : StartWhenIdle(dir)
  \/ \E r \in 1..MaxStarts : Readdir(r)
  \/ \E r \in 1..MaxStarts, f \in Files : Hashed(r, f)
  \/ \E r \in 1..MaxStarts : ReaddirFailed(r)
  \/ \E r \in 1..MaxStarts : WriteOpen(r)
  \/ \E r \in 1..MaxStarts, err \in BOOLEAN : WriteEnd(r, err)

SpecScans == InitMods /\ [][NextScans]_vars

(***************************************************************************)
(* Vocabulary of the properties.                                           *)
(***************************************************************************)
\* how often the publishes hold the event with this string payload
CountPub(pubs, name, data) ==
  Cardinality({k \in DOMAIN pubs : pubs[k].event = name /\ pubs[k].data = data})

\* the lifecycle state of the design: Stopped until a spawn, Starting until
\* the terminal in this.pty has published 'up', Running until the exit
Lifecycle ==
  IF ~isPtyRunning(pty) THEN "Stopped"
  ELSE IF CountPub(terms[pty.state].pubs, "status", "up") > 0 THEN "Running"
       ELSE "Starting"

\* this step is a startServer call
StartStep == Len(terms') = Len(terms) + 1

\* this step is the exit notification of terminal t
ExitStep(t) == t \in DOMAIN terms /\ ~terms[t].exited /\ terms'[t].exited

\* this step is the exit notification of terminal t, handled to its end
ExitHandled(t) == ExitStep(t) /\ ~crashed'

\* this step is the data handler of terminal t
DataStep(t) ==
  t \in DOMAIN terms /\ Len(terms'[t].log) = Len(terms[t].log) + 1

\* what this step published on behalf of terminal t
NewPubs(t) ==
  IF t \in DOMAIN terms
  THEN SubSeq(terms'[t].pubs, Len(terms[t].pubs) + 1, Len(terms'[t].pubs))
  ELSE terms'[t].pubs

\* sendCommand returns success and writes the command and '\r' to terminal t
Accepts(p, tms, t) ==
  \A cmd \in Commands :
    sendCommand(p, tms, cmd) =
      [ret |-> TRUE,
       terms |-> [tms EXCEPT ![t].input = Append(@, cmd \o "\r")]]

\* sendCommand returns failure and writes nothing
Refuses(p, tms) ==
  \A cmd \in Commands : sendCommand(p, tms, cmd) = [ret |-> FALSE, terms |-> tms]

\* the configured subscriptions of an event
Subscribers(name) ==
  {i \in DOMAIN EventListeners :
     \E j \in DOMAIN EventListeners[i].events : EventListeners[i].events[j] = name}

\* how often the listeners called were those of subscription i for the event
CountCalls(cs, i, name) ==
  Cardinality({k \in DOMAIN cs : cs[k].sub = i /\ cs[k].event = name})

\* the chunk a log line was written for
ChunkOf(line) == SubSeq(line, 1, Len(line) - 1)

\* the log lines hold a chunk whose message has the ready marker
HasMarkerLine(log) ==
  \E k \in DOMAIN log : HasReadyMarker(Parsed[ChunkOf(log[k])].cinfo)

(***************************************************************************)
(* C1.  Command gating: in every reachable state in which isPtyRunning()   *)
(* is false, sendCommand returns false whatever the command, and no step   *)
(* taken from that state adds a write to the input of any terminal.        *)
(***************************************************************************)
C1_CommandGating ==
  [][ ~isPtyRunning(pty) =>
        /\ Refuses(pty, terms)
        /\ \A t \in DOMAIN terms : terms'[t].input = terms[t].input ]_vars

\* isPtyRunning() is false although a terminal, spawned later than one whose
\* exit was handled, is alive and has taken a command before
C1_Witness ==
  /\ ~crashed
  /\ ~isPtyRunning(pty)
  /\ \E t \in DOMAIN terms : ~terms[t].exited /\ terms[t].input # << >>

(***************************************************************************)
(* C2 as claimed.  sendCommand writes iff the lifecycle state is Running:  *)
(* in Starting and in Stopped it fails and writes nothing, in Running it   *)
(* writes the command and the terminator and succeeds.                     *)
(***************************************************************************)
C2_WritesIffRunning ==
  IF Lifecycle = "Running" THEN Accepts(pty, terms, pty.state)
  ELSE Refuses(pty, terms)

(***************************************************************************)
(* C2 as amended.  sendCommand writes the command followed by '\r' to the  *)
(* most recently spawned terminal and succeeds from the spawn in           *)
(* startServer on, before any ready signal, until an exit notification is  *)
(* handled; from a handled exit to the next startServer, and before the    *)
(* first one, it fails and writes nothing.  No other step changes which.   *)
(***************************************************************************)
C2_WritesFromSpawnToExit ==
  /\ Refuses(pty, terms)
  /\ [][ /\ StartStep => Accepts(pty', terms', Len(terms'))
         /\ (\E t \in DOMAIN terms : ExitHandled(t)) => Refuses(pty', terms')
         /\ (~StartStep /\ ~(\E t \in DOMAIN terms : ExitHandled(t))) =>
              /\ Refuses(pty, terms) => Refuses(pty', terms')
              /\ Accepts(pty, terms, Len(terms)) =>
                   Accepts(pty', terms', Len(terms')) ]_vars

\* a terminal that never published 'up' has taken a command
C2_Witness ==
  \E t \in DOMAIN terms :
    /\ CountPub(terms[t].pubs, "status", "up") = 0
    /\ terms[t].input # << >>

(***************************************************************************)
(* C3.  Lifecycle monotonicity: the supervisor never goes from Running to  *)
(* Starting, a startServer call made in Running spawns nothing, and the    *)
(* supervisor reaches Stopped only by an exit notification.                *)
(***************************************************************************)
C3_LifecycleMonotonic ==
  [][ /\ Lifecycle = "Running" => Lifecycle' # "Starting" /\ ~StartStep
      /\ (Lifecycle # "Stopped" /\ Lifecycle' = "Stopped") =>
           \E t \in DOMAIN terms : ExitStep(t) ]_vars

(***************************************************************************)
(* C4.  In one process lifetime 'status: up' is published at most once,    *)
(* however many chunks match the ready marker.                             *)
(***************************************************************************)
C4_UpOncePerLifetime ==
  \A t \in DOMAIN terms : CountPub(terms[t].pubs, "status", "up") <= 1

(***************************************************************************)
(* C5.  In every process lifetime (the earlier terminals have exited), the *)
(* data handler publishes 'status: up' for the first chunk of the lifetime *)
(* whose message holds the ready marker.                                   *)
(***************************************************************************)
C5_FirstMarkerChunkPublishesUp ==
  [][ \A t \in DOMAIN terms :
        ( /\ DataStep(t)
          /\ \A u \in DOMAIN terms \ {t} : terms[u].exited
          /\ ~HasMarkerLine(terms[t].log)
          /\ HasMarkerLine(terms'[t].log) )
        => CountPub(NewPubs(t), "status", "up") = 1 ]_vars

(***************************************************************************)
(* C6.  Every startServer call that spawns a terminal publishes exactly    *)
(* one 'status: starting': it reaches the listeners of every configured    *)
(* subscription of 'status', registered earlier in the call, and it is     *)
(* the first publish of the terminal, ahead of every console event and of  *)
(* 'status: up' and 'status: down', and the only 'starting' among them.    *)
(***************************************************************************)
C6_StartingPublishedOnceFirst ==
  /\ [](\A t \in DOMAIN terms :
          /\ terms[t].pubs # << >>
          /\ Head(terms[t].pubs) = [event |-> "status", data |-> "starting"]
          /\ CountPub(terms[t].pubs, "status", "starting") = 1)
  /\ [][ StartStep =>
           /\ NewPubs(Len(terms')) = << [event |-> "status", data |-> "starting"] >>
           /\ \A k \in DOMAIN calls' : calls'[k].data = "starting"
           /\ \A i \in Subscribers("status") : CountCalls(calls', i, "status") >= 1
       ]_vars

\* a terminal has published 'starting', a console event, 'up' and 'down'
C6_Witness ==
  \E t \in DOMAIN terms :
    /\ Len(terms[t].pubs) = 4
    /\ CountPub(terms[t].pubs, "status", "up") = 1
    /\ CountPub(terms[t].pubs, "status", "down") = 1

(***************************************************************************)
(* C7.  Once an exit notification has been handled, this.pty.state is      *)
(* cleared, isPtyRunning() is false and sendCommand fails without writing; *)
(* this stays so, and no terminal input grows, until the next startServer. *)
(***************************************************************************)
C7_ClearedAfterExit ==
  [][ /\ (\E t \in DOMAIN terms : ExitHandled(t)) =>
           /\ pty'.state = 0
           /\ ~isPtyRunning(pty')
           /\ Refuses(pty', terms')
      /\ (~isPtyRunning(pty) /\ ~StartStep) =>
           /\ pty' = pty
           /\ Refuses(pty', terms')
           /\ \A t \in DOMAIN terms : terms'[t].input = terms[t].input ]_vars

\* a terminal that took a command has exited, the exit was handled, and no
\* startServer has followed
C7_Witness ==
  /\ ~crashed
  /\ ~isPtyRunning(pty)
  /\ terms # << >>
  /\ terms[Len(terms)].exited
  /\ terms[Len(terms)].input # << >>

(***************************************************************************)
(* C8.  Every exit notification publishes exactly one 'status: down', and  *)
(* the listeners of every configured subscription of 'status' are called   *)
(* with it.                                                                *)
(***************************************************************************)
C8_DownPublishedOnExit ==
  [][ \A t \in DOMAIN terms :
        ExitStep(t) =>
          /\ CountPub(NewPubs(t), "status", "down") = 1
          /\ \A i \in Subscribers("status") :
               CountCalls(calls', i, "status") >= 1 ]_vars

(***************************************************************************)
(* C9.  A listener an external subscriber registered before a handled      *)
(* exit is called for no publish made after that exit: the exit leaves the *)
(* bus without listeners, the next startServer puts the configured         *)
(* listeners on it and no other, and a listener discarded by an exit is    *)
(* never on the bus again.                                                 *)
(***************************************************************************)
C9_ExternalListenersDropped ==
  /\ [](ExtIds(events) \cap discarded = {})
  /\ [][ /\ \A k \in DOMAIN calls' : calls'[k].ext \notin discarded
         /\ (\E t \in DOMAIN terms : ExitHandled(t)) =>
              /\ events' = << >>
              /\ discarded' = discarded \cup (ExtIds(events) \ {0})
         /\ (events = << >> /\ StartStep) => events' = ListenersFrom(1) ]_vars

\* an external listener was discarded by an exit, and the startServer after
\* it has published 'starting' to the configured listeners only
C9_Witness ==
  /\ discarded # {}
  /\ Len(terms) = 2
  /\ terms[1].exited
  /\ calls # << >>
  /\ \A k \in DOMAIN calls : calls[k].data = "starting" /\ calls[k].ext = 0

(***************************************************************************)
(* C10.  Whatever startServer calls and exits came before, one publish of  *)
(* an event calls the listeners of every configured subscription of that   *)
(* event exactly once.                                                     *)
(***************************************************************************)
C10_OneDeliveryPerSubscription ==
  [][ \A t \in DOMAIN terms' :
        \A k \in DOMAIN NewPubs(t) :
          \A i \in Subscribers(NewPubs(t)[k].event) :
            CountCalls(calls', i, NewPubs(t)[k].event) = 1 ]_vars

(***************************************************************************)
(* Vocabulary of the delivery properties.                                  *)
(***************************************************************************)
\* how many of the POSTs go to the uri with the event and payload as body
CountPosts(posts, uri, name, data) ==
  Cardinality({k \in DOMAIN posts :
                 /\ posts[k].url = uri
                 /\ posts[k].body.event = name
                 /\ posts[k].body.data = data})

\* the call is one of a listener of a webhook subscription
IsWebhookCall(c) == c.sub > 0 /\ EventListeners[c.sub].type = "webhook"

\* the POST a webhook listener makes when it is called
PostOfCall(c) ==
  [url |-> EventListeners[c.sub].uri,
   body |-> [event |-> c.event, data |-> c.data]]

\* this step is the end of a POST
RespondStep == lastOutcome' # "none"

(***************************************************************************)
(* C11.  Every publish makes exactly one POST, with the body {event,       *)
(* data} of the publish, to the uri of every webhook subscription that     *)
(* lists the event, and none to the uri of any other subscription.         *)
(***************************************************************************)
C11_OnePostPerMatchingWebhook ==
  [][ \A t \in DOMAIN terms' :
        \A k \in DOMAIN NewPubs(t) :
          \A i \in DOMAIN EventListeners :
            CountPosts(PostsOf(calls'), EventListeners[i].uri,
                       NewPubs(t)[k].event, NewPubs(t)[k].data)
            = IF EventListeners[i].type = "webhook"
                 /\ i \in Subscribers(NewPubs(t)[k].event)
              THEN 1 ELSE 0 ]_vars

(***************************************************************************)
(* C12.  The listeners of a subscription whose type is not 'webhook' make  *)
(* no POST, whatever the event, and the POSTs of a step are those of the   *)
(* webhook listeners called, one each, in call order.                      *)
(***************************************************************************)
C12_NoPostForUnknownType ==
  /\ \A k \in DOMAIN PostsOf(calls) :
       \A i \in DOMAIN EventListeners :
         EventListeners[i].type # "webhook" =>
           PostsOf(calls)[k].url # EventListeners[i].uri
  /\ LET w == SelectSeq(calls, IsWebhookCall)
     IN PostsOf(calls) = [k \in DOMAIN w |-> PostOfCall(w[k])]

\* a publish has called a listener of the 'mail' subscription and a webhook
\* listener
C12_Witness ==
  /\ \E k \in DOMAIN calls :
       calls[k].sub > 0 /\ EventListeners[calls[k].sub].type # "webhook"
  /\ PostsOf(calls) # << >>

ModEvents == {"modAddition", "modUpdated", "modDeletion"}

\* the final callback of the scan r runs in this step
ScanDone(r) ==
  /\ r \in DOMAIN runs
  /\ runs[r].kind = "scan"
  /\ runs[r].stage \in {"readdir", "hashing"}
  /\ runs'[r].stage = "writing"

\* startServer starts the scan r in this step
ScanStarted(r) ==
  /\ r = Len(runs) + 1
  /\ Len(runs') = r
  /\ runs'[r].kind = "scan"

\* the records mods.json holds: what a constructor would load from it; none
\* while the file is absent or cut
Persisted ==
  IF modsJson.whole THEN LoadMods(modsJson) ELSE << >>

\* the manifest has a record of the file
HasRecord(ms, f) == \E k \in DOMAIN ms : ms[k].filename = f

\* the manifest has a record of the file with this hash
HasPair(ms, f, h) == \E k \in DOMAIN ms : ms[k] = [filename |-> f, hash |-> h]

\* how many records of the file the manifest has
CountRecords(ms, f) == Cardinality({k \in DOMAIN ms : ms[k].filename = f})

\* the filename-to-hash pairs of a manifest
Pairs(ms) == {ms[k] : k \in DOMAIN ms}

\* the file is a regular file of the mod directory
OnDisk(dir, f) == f \in RegularFiles(dir)

\* what a scan of the directory against the manifest has to report the
\* file as
KindOf(ms, dir, f) ==
  IF OnDisk(dir, f) /\ ~HasRecord(ms, f) THEN "modAddition"
  ELSE IF OnDisk(dir, f) /\ ~HasPair(ms, f, dir[f]) THEN "modUpdated"
  ELSE IF ~OnDisk(dir, f) /\ HasRecord(ms, f) THEN "modDeletion"
  ELSE "none"

\* how many records of the file the publishes of the event carry
RECURSIVE CountReported(_, _, _)
CountReported(pubs, event, f) ==
  IF pubs = << >> THEN 0
  ELSE (IF Head(pubs).event = event
        THEN CountRecords(Head(pubs).data.mods, f) ELSE 0)
       + CountReported(Tail(pubs), event, f)

\* how many publishes of the event there are
CountBatches(pubs, event) ==
  Cardinality({k \in DOMAIN pubs : pubs[k].event = event})

(***************************************************************************)
(* C14.  Diff partition: when a scan completes, with S1 the manifest it    *)
(* started from (what mods.json holds until the scan writes it) and S2     *)
(* the mod directory, every file in S2 and not in S1 is in the Addition    *)
(* batch, every file in both with a different hash in the Update batch,    *)
(* every file in S1 and not in S2 in the Deletion batch, each once and in  *)
(* no other batch, and an unchanged file is in none.                       *)
(***************************************************************************)
C14_DiffPartition ==
  [][ \A r \in DOMAIN runs :
        ScanDone(r) =>
          \A f \in Files : \A e \in ModEvents :
            CountReported(runs'[r].pubs, e, f)
            = IF KindOf(Persisted, modDir, f) = e THEN 1 ELSE 0 ]_vars

(***************************************************************************)
(* C15.  Scan idempotence: a scan that runs after an earlier scan has      *)
(* completed, with the mod directory as it was, publishes nothing and      *)
(* leaves the manifest with the filename-to-hash pairs the earlier scan    *)
(* left (those it wrote to mods.json).                                     *)
(***************************************************************************)
C15_ScanIdempotent ==
  [][ \A r \in DOMAIN runs :
        (ScanDone(r) /\ r > 1 /\ runs[r - 1].kind = "scan") =>
          /\ runs'[r].pubs = << >>
          /\ Pairs(mods') = Pairs(Persisted) ]_vars

\* the end callback of the scan r for the file f runs in this step
ScanEndStep(r, f) ==
  /\ r \in DOMAIN runs
  /\ runs[r].kind = "scan"
  /\ runs[r].stage = "hashing"
  /\ f \in runs[r].pending
  /\ (f \notin runs'[r].pending \/ crashed')

\* the queue holds the event with this record as data
Queued(q, event, rec) ==
  \E k \in DOMAIN q : q[k].event = event /\ q[k].data = rec

(***************************************************************************)
(* C16.  Update: when the scan has hashed a file that has a manifest       *)
(* record with another hash, the scan goes on (the process does not end),  *)
(* the record has the new hash afterwards, no record is added or removed,  *)
(* and {filename, newHash} is queued for the Update batch and for no       *)
(* other.                                                                  *)
(***************************************************************************)
C16_UpdateInPlace ==
  [][ \A r \in DOMAIN runs : \A f \in Files :
        ( /\ ScanEndStep(r, f)
          /\ HasRecord(mods, f)
          /\ ~HasPair(mods, f, modDir[f]) )
        => /\ ~crashed'
           /\ HasPair(mods', f, modDir[f])
           /\ Len(mods') = Len(mods)
           /\ Queued(runs'[r].queue, "modUpdated",
                     [filename |-> f, hash |-> modDir[f]])
           /\ \A k \in DOMAIN runs'[r].queue :
                runs'[r].queue[k].data.filename = f =>
                  runs'[r].queue[k].event = "modUpdated" ]_vars

\* no record of the manifest is of a file that is absent from the directory
NoAbsentRecord(ms, dir) == \A k \in DOMAIN ms : Exists(dir, ms[k].filename)

(***************************************************************************)
(* C17.  Deletion pass: the pass a scan starts with queues a Deletion      *)
(* with the record, stored hash included, of every manifest record whose   *)
(* file is absent from the mod directory, and removes the record, so that  *)
(* no record of an absent file is left after the pass, nor when the scan   *)
(* completes.                                                              *)
(***************************************************************************)
C17_DeletionPass ==
  [][ /\ \A r \in 1..(Len(runs) + 1) :
           ScanStarted(r) =>
             /\ \A k \in DOMAIN mods :
                  ~Exists(modDir, mods[k].filename) =>
                    Queued(runs'[r].queue, "modDeletion", mods[k])
             /\ NoAbsentRecord(mods', modDir)
      /\ \A r \in DOMAIN runs :
           ScanDone(r) => NoAbsentRecord(mods', modDir) ]_vars

(***************************************************************************)
(* C18.  Addition: a scan does not end, by its final callback or by an     *)
(* exception that ends the process, before every regular file of the mod   *)
(* directory that had no record in the manifest the scan started from has  *)
(* exactly one record, with its computed hash, and is reported once in     *)
(* the Addition batch.                                                     *)
(***************************************************************************)
ScanEnded(r) ==
  \/ ScanDone(r)
  \/ /\ r \in DOMAIN runs
     /\ runs[r].kind = "scan"
     /\ runs[r].stage = "hashing"
     /\ ~crashed
     /\ crashed'

C18_Addition ==
  [][ \A r \in DOMAIN runs : \A f \in Files :
        (ScanEnded(r) /\ OnDisk(modDir, f) /\ ~HasRecord(Persisted, f)) =>
          /\ CountRecords(mods', f) = 1
          /\ HasPair(mods', f, modDir[f])
          /\ CountReported(runs'[r].pubs, "modAddition", f) = 1 ]_vars

(***************************************************************************)
(* C19.  A scan publishes only in its final callback, and there each of    *)
(* modAddition, modDeletion and modUpdated at most once: one batch with    *)
(* all the records queued for the kind, in queue order, and no publish of  *)
(* a kind for which the scan has no affected file.                         *)
(***************************************************************************)
C19_OneBatchPerKind ==
  /\ [](\A r \in DOMAIN runs :
          runs[r].stage \in {"readdir", "hashing"} => runs[r].pubs = << >>)
  /\ [][ \A r \in DOMAIN runs :
           ScanDone(r) =>
             \A e \in ModEvents :
               /\ CountBatches(runs'[r].pubs, e) <= 1
               /\ \A k \in DOMAIN runs'[r].pubs :
                    runs'[r].pubs[k].event = e =>
                      /\ runs'[r].pubs[k].data.mods = BatchData(runs'[r].queue, e)
                      /\ runs'[r].pubs[k].data.mods # << >>
               /\ (BatchData(runs'[r].queue, e) # << >>) =>
                    CountBatches(runs'[r].pubs, e) = 1
               /\ (\A f \in Files : KindOf(Persisted, modDir, f) # e) =>
                    CountBatches(runs'[r].pubs, e) = 0
               /\ calls' = EmitAll(events, runs'[r].pubs) ]_vars

\* a completed scan has published two batches: one file added, one deleted
C19_Witness ==
  \E r \in DOMAIN runs :
    /\ runs[r].kind = "scan"
    /\ runs[r].stage = "done"
    /\ Len(runs[r].pubs) = 2
    /\ CountBatches(runs[r].pubs, "modAddition") = 1
    /\ CountBatches(runs[r].pubs, "modDeletion") = 1

(***************************************************************************)
(* C20.  Manifest uniqueness: in every reachable state no two records of   *)
(* this.mods, and no two records of mods.json, have the same filename.     *)
(***************************************************************************)
C20_UniqueFilenames ==
  \A f \in Files :
    /\ CountRecords(mods, f) <= 1
    /\ CountRecords(Persisted, f) <= 1

(***************************************************************************)
(* C21.  Crash safety of mods.json: in every state, whether the process    *)
(* has ended or not, the file is absent (nothing persisted yet) or holds   *)
(* the whole of one JSON.stringify output, never an empty or partial one.  *)
(***************************************************************************)
C21_ManifestNeverPartial ==
  modsJson.exists => modsJson.whole

(***************************************************************************)
(* C22.  Scans are serialized: startServer starts a build or a scan only   *)
(* when every build and scan started earlier has finished its hashing and  *)
(* its write of mods.json, also when the earlier subprocess has exited.    *)
(***************************************************************************)
RunStarted == Len(runs') = Len(runs) + 1

Outstanding(r) == runs[r].stage # "done"

C22_ScansSerialized ==
  [][ (RunStarted /\ ~isPtyRunning(pty)) =>
        \A r \in DOMAIN runs : ~Outstanding(r) ]_vars

(***************************************************************************)
(* C23.  When fs.readdir of the mod directory fails, the callback ends     *)
(* the node process, no listener is called and no POST is made (no mod     *)
(* event is published, whatever the deletion pass has queued), mods.json   *)
(* is left as it is, and nothing happens afterwards.                       *)
(***************************************************************************)
ReaddirFailedStep(r) ==
  /\ r \in DOMAIN runs
  /\ runs[r].stage = "readdir"
  /\ runs'[r].stage = "failed"

C23_ReaddirErrorFatal ==
  /\ [][ \A r \in DOMAIN runs :
           ReaddirFailedStep(r) =>
             /\ crashed'
             /\ calls' = << >>
             /\ inflight' = << >>
             /\ runs'[r].pubs = << >>
             /\ modsJson' = modsJson ]_vars
  /\ [][ crashed => UNCHANGED vars ]_vars

\* the readdir of a scan has failed after the deletion pass had queued an
\* event, and mods.json still has the record
C23_Witness ==
  \E r \in DOMAIN runs :
    /\ runs[r].kind = "scan"
    /\ runs[r].stage = "failed"
    /\ runs[r].queue # << >>
    /\ crashed
    /\ modsJson.whole
    /\ Len(Persisted) > Len(mods)

(***************************************************************************)
(* C24.  An absent mods.json is no error: startServer starts the build     *)
(* with this.mods empty, and when the final callback of a build runs with  *)
(* mods.json still absent (so it was absent when the build started),       *)
(* this.mods and the data handed to fs.writeFile hold exactly one record   *)
(* {filename, hash} for each regular file of the mod directory and no      *)
(* other record; the write, when it succeeds, leaves those data on disk.   *)
(***************************************************************************)
\* the final callback of the build r runs in this step
BuildDone(r) ==
  /\ r \in DOMAIN runs
  /\ runs[r].kind = "build"
  /\ runs[r].stage \in {"readdir", "hashing"}
  /\ runs'[r].stage = "writing"

\* the manifest has exactly one record per regular file of the directory,
\* with the file's digest, and nothing else
OneRecordPerFile(ms, dir) ==
  /\ \A f \in Files :
       CountRecords(ms, f) = IF OnDisk(dir, f) THEN 1 ELSE 0
  /\ \A f \in Files : OnDisk(dir, f) => HasPair(ms, f, dir[f])

C24_BuildFromAbsentManifest ==
  /\ [](( ~modsJson.exists /\ runs = << >> ) => mods = << >>)
  /\ [][ \A r \in DOMAIN runs :
           (BuildDone(r) /\ ~modsJson.exists) =>
             /\ OneRecordPerFile(mods', modDir)
             /\ runs'[r].data = mods' ]_vars
  /\ [][ \A r \in DOMAIN runs :
           ( /\ runs[r].kind = "build"
             /\ runs[r].stage = "opened"
             /\ runs'[r].stage = "done"
             /\ ~crashed' ) =>
             modsJson' = WriteModsJson(runs[r].data) ]_vars

(***************************************************************************)
(* C25.  removeWorld never deletes while a subprocess is alive: in every   *)
(* state in which a spawned terminal has not exited, removeWorld(name)     *)
(* with a non-empty name returns {success: false, reason: 'PTY'} and       *)
(* leaves the world directories as they are.                               *)
(***************************************************************************)
SubprocessAlive == \E t \in DOMAIN terms : ~terms[t].exited

C25_NoRemovalWhileAlive ==
  (~crashed /\ SubprocessAlive) =>
    \A name \in WorldNames \ {""} :
      removeWorld(pty, worlds, name) = [ret |-> Failure("PTY"), worlds |-> worlds]

(***************************************************************************)
(* C26.  removeWorld outcomes, in this order: an empty name fails with     *)
(* INVOKE whatever isPtyRunning() says; otherwise isPtyRunning() true      *)
(* fails with PTY; otherwise a missing directory fails with NOTEXIST;      *)
(* otherwise the directory is deleted and success is returned.  A failure  *)
(* changes neither the world directories nor anything of the supervisor.   *)
(***************************************************************************)
RemoveWorldStep == lastCall'.n # lastCall.n /\ lastCall'.call = "removeWorld"

Expected(name) ==
  IF name = "" THEN Failure("INVOKE")
  ELSE IF isPtyRunning(pty) THEN Failure("PTY")
  ELSE IF name \notin worlds THEN Failure("NOTEXIST")
  ELSE Success

C26_RemoveWorldOutcomes ==
  [][ RemoveWorldStep =>
        /\ lastCall'.ret = Expected(lastCall'.arg)
        /\ IF lastCall'.ret.success
           THEN worlds' = worlds \ {lastCall'.arg}
           ELSE worlds' = worlds
        /\ UNCHANGED << pty, terms, events, extCount, logFile, cdoneLastIndex,
                        crashed, nChunks, discarded >>
        /\ UNCHANGED modVars ]_vars

\* a world was deleted while isPtyRunning() was false, and a later call for
\* the same name, with a subprocess spawned, has failed with PTY
C26_Witness ==
  /\ worlds = {}
  /\ lastCall.call = "removeWorld"
  /\ lastCall.arg = "world"
  /\ lastCall.ret = Failure("PTY")
  /\ isPtyRunning(pty)

(***************************************************************************)
(* C27.  op(player) and deop(player): when isPtyRunning() is true they     *)
(* write exactly 'op <player>' / 'deop <player>' followed by '\r' to the   *)
(* terminal this.pty.state and return true; when it is false they return   *)
(* false and write nothing.                                                *)
(***************************************************************************)
OpStep == lastCall'.n # lastCall.n /\ lastCall'.call \in {"op", "deop"}

C27_OpDeop ==
  [][ OpStep =>
        /\ lastCall'.ret = isPtyRunning(pty)
        /\ IF isPtyRunning(pty)
           THEN terms' = [terms EXCEPT ![pty.state].input =
                            Append(@, lastCall'.call \o " " \o lastCall'.arg \o "\r")]
           ELSE terms' = terms
        /\ UNCHANGED << pty, events, logFile, crashed, worlds >> ]_vars

\* deop has written its command to the running terminal and returned true
C27_Witness ==
  /\ lastCall.call = "deop"
  /\ lastCall.ret = TRUE
  /\ \E t \in DOMAIN terms : terms[t].input = << "deop steve\r" >>

(***************************************************************************)
(* C28.  The data handler publishes at most one console event per chunk,   *)
(* the one of that chunk, and writes the chunk followed by '\n' to its     *)
(* log stream exactly once, also when the console event is suppressed: so  *)
(* the log lines of a terminal are its chunks in arrival order, and its    *)
(* console events are, in the same order, those of the chunks whose event  *)
(* is not suppressed.                                                      *)
(***************************************************************************)
\* the console events among the publishes, in order
RECURSIVE ConsoleOf(_)
ConsoleOf(pubs) ==
  IF pubs = << >> THEN << >>
  ELSE (IF Head(pubs).event = "console" THEN << Head(pubs).data >> ELSE << >>)
       \o ConsoleOf(Tail(pubs))

\* the console events the chunks of the log lines give, in order
RECURSIVE ConsoleOfLog(_)
ConsoleOfLog(log) ==
  IF log = << >> THEN << >>
  ELSE (IF ConsoleEmitted(Parsed[ChunkOf(Head(log))].res)
        THEN << Parsed[ChunkOf(Head(log))].res >> ELSE << >>)
       \o ConsoleOfLog(Tail(log))

C28_ConsoleOrderAndLog ==
  /\ [](\A t \in DOMAIN terms : ConsoleOf(terms[t].pubs) = ConsoleOfLog(terms[t].log))
  /\ [][ \A t \in DOMAIN terms :
           DataStep(t) =>
             /\ Len(ConsoleOf(NewPubs(t))) <= 1
             /\ \E data \in ParserChunks :
                  /\ terms'[t].log = Append(terms[t].log, data \o << "\n" >>)
                  /\ ConsoleOf(NewPubs(t)) =
                       IF ConsoleEmitted(Parsed[data].res)
                       THEN << Parsed[data].res >> ELSE << >>
             /\ \A u \in DOMAIN terms : u # t => terms'[u] = terms[u] ]_vars
  /\ [][ \A t \in DOMAIN terms :
           ~DataStep(t) =>
             /\ terms'[t].log = terms[t].log
             /\ ConsoleOf(NewPubs(t)) = << >> ]_vars

\* a terminal has logged a suppressed chunk and then a chunk whose console
\* event was published
C28_Witness ==
  \E t \in DOMAIN terms :
    /\ terms[t].log = << ChunkBlank \o << "\n" >>, ChunkDone \o << "\n" >> >>
    /\ ConsoleOf(terms[t].pubs) = << Parsed[ChunkDone].res >>

(***************************************************************************)
(* C29.  No console event is published whose first tag is null, a single   *)
(* space or empty: the handler publishes a console event only for a chunk  *)
(* that has a bracketed tag, and the first tag is neither ' ' nor ''.      *)
(***************************************************************************)
C29_NoBlankConsoleEvent ==
  [][ \A t \in DOMAIN terms :
        (DataStep(t) /\ ConsoleOf(NewPubs(t)) # << >>) =>
          LET tags == getRegexMatches(ChunkOf(terms'[t].log[Len(terms'[t].log)]))
          IN /\ tags # << >>
             /\ tags[1] # << " " >>
             /\ tags[1] # << >> ]_vars

(***************************************************************************)
(* C30.  Manifest round trip: for every manifest with unique filenames,    *)
(* in whatever order its records are, the text JSON.stringify writes to    *)
(* mods.json parses, and the constructor loads from it the same set of     *)
(* {filename, hash} pairs (in fact the same records in the same order).    *)
(* Checked on the manifests a constructor finds and on every manifest a    *)
(* build or scan writes.                                                   *)
(***************************************************************************)
Unique(ms) == \A f \in Files : CountRecords(ms, f) <= 1

RoundTrip(ms) ==
  /\ ~JSONparse(JSONstringify(ms)).threw
  /\ LoadMods(WriteModsJson(ms)) = ms
  /\ Pairs(LoadMods(WriteModsJson(ms))) = Pairs(ms)

C30_ManifestRoundTrip ==
  /\ [](runs = << >> => \A m \in Manifests :
                          modsJson = WriteModsJson(m) => /\ RoundTrip(m)
                                                         /\ Pairs(mods) = Pairs(m))
  /\ [][ \A r \in DOMAIN runs :
           ( /\ runs[r].stage = "opened"
             /\ runs'[r].stage = "done"
             /\ ~crashed'
             /\ Unique(runs[r].data) ) =>
             /\ modsJson'.text = JSONstringify(runs[r].data)
             /\ RoundTrip(runs[r].data)
             /\ Pairs(LoadMods(modsJson')) = Pairs(runs[r].data) ]_vars

\* a scan has written a manifest of two records that the constructor had
\* loaded in the other order
C30_Witness ==
  /\ modsJson.whole
  /\ Len(mods) = 2
  /\ mods[1].filename = "b.jar"
  /\ \E r \in DOMAIN runs : runs[r].stage = "done" /\ runs[r].data = mods
  /\ LoadMods(modsJson) = mods

(***************************************************************************)
(* C31.  Forge upgrade detection (revision 0.0.1): when the version file   *)
(* of the directory records version false and a forge version other than   *)
(* the configured one, the start publishes exactly one versionChange,      *)
(* whose oldVersion is the forge version the file recorded before the      *)
(* start and whose newVersion is the configured one, and the file records  *)
(* the configured version afterwards, so that it requests no upgrade any   *)
(* more; a start that finds no such request publishes no versionChange.    *)
(***************************************************************************)
UpgradeRequested(dir) ==
  /\ versionFile[dir].exists
  /\ ParseVersion(versionFile[dir].text).version = "false"
  /\ ParseVersion(versionFile[dir].text).forge # CfgForge

VersionChanges(pubs) == SelectSeq(pubs, LAMBDA p : p.event = "versionChange")

C31_VersionChangeOnUpgrade ==
  [][ \A dir \in Dirs :
        StartChecked(dir) =>
          LET recorded == ParseVersion(versionFile[dir].text)
              changes == VersionChanges(terms'[Len(terms')].pubs)
          IN IF UpgradeRequested(dir)
             THEN /\ Len(changes) = 1
                  /\ changes[1].data = [newVersion |-> CfgForge,
                                        oldVersion |-> recorded.forge]
                  /\ ParseVersion(versionFile'[dir].text).forge = CfgForge
                  /\ ~UpgradeRequested(dir)'
             ELSE changes = << >> ]_vars

(***************************************************************************)
(* C32.  Subdirectories of the mod directory are skipped by the build and  *)
(* by the scan: a directory entry is never hashed, has no manifest record  *)
(* in memory or in mods.json, and is in no Addition or Update batch,       *)
(* queued or published.                                                    *)
(***************************************************************************)
Directories(dir) == {e \in Entries : Exists(dir, e) /\ IsDirectory(dir, e)}

C32_DirectoriesSkipped ==
  \A e \in Directories(modDir) :
    /\ ~HasRecord(mods, e)
    /\ ~HasRecord(Persisted, e)
    /\ \A r \in DOMAIN runs :
         /\ e \notin runs[r].pending
         /\ \A k \in DOMAIN runs[r].queue : runs[r].queue[k].data.filename # e
         /\ CountReported(runs[r].pubs, "modAddition", e) = 0
         /\ CountReported(runs[r].pubs, "modUpdated", e) = 0
         /\ ~HasRecord(runs[r].data, e)

\* a scan and a build have each run to their end over a directory that holds
\* a subdirectory besides a regular file, which has its record
C32_Witness ==
  /\ Directories(modDir) # {}
  /\ \E f \in RegularFiles(modDir) : HasRecord(mods, f) /\ HasRecord(Persisted, f)
  /\ \E r \in DOMAIN runs : runs[r].kind = "scan" /\ runs[r].stage = "done"
  /\ \E r \in DOMAIN runs : runs[r].kind = "build" /\ runs[r].stage = "done"

(***************************************************************************)
(* C33.  Manifest/directory consistency: when a scan completes, the        *)
(* manifest equals the snapshot of the mod directory: its filenames are    *)
(* exactly the regular files of the directory and each record has the      *)
(* current hash of its file; and so does mods.json once the scan has       *)
(* written it.                                                             *)
(***************************************************************************)
SnapshotPairs(dir) == {[filename |-> f, hash |-> dir[f]] : f \in RegularFiles(dir)}

ScanWritten(r) ==
  /\ r \in DOMAIN runs
  /\ runs[r].kind = "scan"
  /\ runs[r].stage = "opened"
  /\ runs'[r].stage = "done"
  /\ ~crashed'

C33_ManifestEqualsSnapshot ==
  [][ \A r \in DOMAIN runs :
        /\ ScanDone(r) => Pairs(mods') = SnapshotPairs(modDir)
        /\ ScanWritten(r) => Pairs(Persisted') = SnapshotPairs(modDir) ]_vars

(***************************************************************************)
(* C34.  The exit notification of an earlier subprocess never disables a   *)
(* later one: while the most recently spawned terminal has not exited,     *)
(* isPtyRunning() is true, this.pty.state is that terminal and sendCommand *)
(* writes the command to it.                                               *)
(***************************************************************************)
C34_LatestStaysEnabled ==
  (~crashed /\ terms # << >> /\ ~terms[Len(terms)].exited) =>
    /\ isPtyRunning(pty)
    /\ pty.state = Len(terms)
    /\ Accepts(pty, terms, Len(terms))

(***************************************************************************)
(* C35.  At most one supervised subprocess is alive at any time: a         *)
(* startServer call made while a terminal spawned earlier has not exited   *)
(* spawns no second one.                                                   *)
(***************************************************************************)
Alive == {t \in DOMAIN terms : ~terms[t].exited}

C35_SingleSubprocess ==
  /\ [](Cardinality(Alive) <= 1)
  /\ [][ Alive # {} => ~StartStep ]_vars

(***************************************************************************)
(* C36.  The mod change batches of the scan that startServer started reach *)
(* every configured subscription of their event, also when the subprocess  *)
(* has exited, and the bus was replaced, before the scan ends: at the      *)
(* final callback of a scan, each subscription of modAddition, modUpdated  *)
(* or modDeletion is called for every batch of its event.                  *)
(***************************************************************************)
C36_BatchesReachSubscribers ==
  [][ \A r \in DOMAIN runs :
        ScanDone(r) =>
          \A name \in ModEvents : \A i \in Subscribers(name) :
            CountCalls(calls', i, name) >= CountBatches(runs'[r].pubs, name) ]_vars
====
